---- MODULE Spec2Model ----
(***************************************************************************)
(* Model of src/src/kfs_transformer/transformer.py: the Firehose           *)
(* transformation lambda for CloudWatch Logs records (classification,     *)
(* size budget, re-ingestion groups and the retrying put calls).          *)
(*                                                                         *)
(* Conventions                                                             *)
(*  - Python lists are sequences (1-based here, 0-based in the source).    *)
(*  - A Python dict with an optional key is a function whose DOMAIN holds  *)
(*    the key or not ('data' of an output record).                         *)
(*  - A text is the record [v, len, esc]: v identifies the text, len is    *)
(*    its number of characters and esc the number of those characters     *)
(*    json.dumps writes with a backslash.  Payloads of several megabytes   *)
(*    are texts with a short v and a large len.                            *)
(*  - base64 and gzip are wrappers: b64encode(x) is [b64 |-> x], whose     *)
(*    length is 4 * ceil(len(x) / 3); b64decode removes the wrapper.       *)
(***************************************************************************)
EXTENDS Integers, Sequences, FiniteSets, TLC

VARIABLES
    event,                       \* the invocation input (isSas + records)
    pc,                          \* position of lambda_handler
    records,                     \* list(processRecords(event['records']))
    projectedSize,
    recordsToReingest,
    putRecordBatches,
    totalRecordsToBeReingested,
    batchNo,                     \* position of the dispatch loop (1-based)
    putArgs,                     \* records argument of the current put call
    putPos,                      \* group positions of putArgs' entries
    attemptsMade,
    lastStatus,                  \* stream's verdict on each entry's last submission
    recordsReingestedSoFar,
    putCalls,                    \* put calls made for the group submitted last
    lastCountZero,               \* the last put call got a response with aggregate count 0
    raised                       \* the exception that ended the invocation

vars == <<event, pc, records, projectedSize, recordsToReingest,
          putRecordBatches, totalRecordsToBeReingested, batchNo, putArgs,
          putPos, attemptsMade, lastStatus, recordsReingestedSoFar,
          putCalls, lastCountZero, raised>>

(***************************************************************************)
(* Program constants                                                       *)
(***************************************************************************)
RecordLimit == 6000000
BatchLimit == 6000000
GroupSize == 500
MaxAttempts == 20

(***************************************************************************)
(* Bounds of the model                                                     *)
(***************************************************************************)
MaxBatch == 2
MaxGroups == 2
MaxFullResponse == 2

(***************************************************************************)
(* Helpers                                                                 *)
(***************************************************************************)
Range(s) == {s[i] : i \in DOMAIN s}

RECURSIVE SumRange(_, _, _)
SumRange(f, lo, hi) ==
    IF lo > hi THEN 0
    ELSE IF lo = hi THEN f[lo]
    ELSE LET mid == (lo + hi) \div 2
         IN SumRange(f, lo, mid) + SumRange(f, mid + 1, hi)

RECURSIVE SumOver(_, _)
SumOver(f, S) ==
    IF S = {} THEN 0
    ELSE LET x == CHOOSE y \in S : TRUE
         IN f[x] + SumOver(f, S \ {x})

Text(s) == [v |-> s, len |-> Len(s), esc |-> 0]

(***************************************************************************)
(* Environment of the module                                               *)
(***************************************************************************)
LOGS_INDEX_PREFIX == "logs"
Today == "2026-11-05"

(***************************************************************************)
(* Encodings                                                               *)
(***************************************************************************)
B64Len(n) == 4 * ((n + 2) \div 3)

b64encode(x) == [b64 |-> x]
b64decode(d) == d.b64

\* json.dumps of a text: the quotes, the characters and the backslashes
JsonStrLen(t) == t.len + t.esc + 2

\* json.dumps of a dict of texts: {"k": v, "k": v}
JsonDictLen(d) ==
    LET item == [k \in DOMAIN d |-> Len(k) + 2 + 2 + JsonStrLen(d[k])]
        n == Cardinality(DOMAIN d)
    IN 2 + SumOver(item, DOMAIN d) + (IF n > 0 THEN 2 * (n - 1) ELSE 0)

\* datetime.fromtimestamp(ts / 1000.0).isoformat(): seconds, and the
\* microseconds only when there are some
IsoFormat(ts) ==
    [v |-> ToString(ts \div 1000) \o "." \o ToString(ts % 1000),
     len |-> IF ts % 1000 = 0 THEN 19 ELSE 26,
     esc |-> 0]

\* str(message).strip()
Strip(m) == [v |-> m.v, len |-> m.len - m.ws, esc |-> m.esc]

(***************************************************************************)
(* transformLogEvent                                                       *)
(***************************************************************************)
ReservedKeys == {"@id", "@owner", "@log_group", "@log_stream", "@timestamp", "@message"}

EsAction == [kind |-> "action",
             index |-> LOGS_INDEX_PREFIX \o "-" \o Today,
             len |-> 25 + Len(LOGS_INDEX_PREFIX) + 1 + Len(Today)]

Derived(data, log_event) ==
    [k \in ReservedKeys |->
        CASE k = "@id" -> log_event.id
          [] k = "@owner" -> data.owner
          [] k = "@log_group" -> data.logGroup
          [] k = "@log_stream" -> data.logStream
          [] k = "@timestamp" -> IsoFormat(log_event.timestamp)
          [] k = "@message" -> Strip(log_event.message)]

\* es_source.update(message): the keys of the message win
Update(d, m) ==
    [k \in DOMAIN d \cup DOMAIN m |-> IF k \in DOMAIN m THEN m[k] ELSE d[k]]

EsSource(data, log_event) ==
    IF log_event.message.isObject
    THEN Update(Derived(data, log_event), log_event.message.fields)
    ELSE Derived(data, log_event)

SourceLine(data, log_event) ==
    LET doc == EsSource(data, log_event)
    IN [kind |-> "source", doc |-> doc, len |-> JsonDictLen(doc)]

\* variant: the index-action line written before every document
transformLogEventAlwaysAction(data, log_event_index, log_event) ==
    <<EsAction, SourceLine(data, log_event)>>

transformLogEvent(data, log_event_index, log_event) ==
    IF log_event_index = 0
    THEN <<SourceLine(data, log_event)>>
    ELSE <<EsAction, SourceLine(data, log_event)>>

\* f"{line}\n" for every line of a fragment
FragmentLen(frag) ==
    SumRange([i \in DOMAIN frag |-> frag[i].len + 1], 1, Len(frag))

\* ''.join(fragments).encode("utf-8"): the lines in order; the texts are
\* ASCII after json.dumps, one byte per character
JoinedLen(frags) ==
    SumRange([i \in DOMAIN frags |-> FragmentLen(frags[i])], 1, Len(frags))

(***************************************************************************)
(* processRecords                                                          *)
(***************************************************************************)
\* gzip.GzipFile(...).read() and json.loads succeed on the decoded bytes
Decodes(r) == b64decode(r.data).intact /\ b64decode(r.data).gzip.valid

\* the parsed json of a record that decodes
Envelope(r) == b64decode(r.data).gzip.json

RECURSIVE Flatten(_)
Flatten(frags) ==
    IF frags = <<>> THEN <<>> ELSE Head(frags) \o Flatten(Tail(frags))

\* joinedData.encode("utf-8") of a DATA_MESSAGE envelope
DataBytes(data) ==
    LET frags == [i \in DOMAIN data.logEvents |->
                     transformLogEvent(data, i - 1, data.logEvents[i])]
    IN [lines |-> Flatten(frags), len |-> JoinedLen(frags)]

\* len() of base64 bytes
EncodedLen(encodedData) == B64Len(encodedData.b64.len)

\* variant: the comparison made strict
WithinRecordLimitStrict(encodedData) == EncodedLen(encodedData) < RecordLimit

WithinRecordLimit(encodedData) == EncodedLen(encodedData) <= RecordLimit

OkRecord(recId, encodedData) ==
    [data |-> encodedData, result |-> "Ok", recordId |-> recId]

DroppedRecord(recId) == [result |-> "Dropped", recordId |-> recId]

FailedRecord(recId) == [result |-> "ProcessingFailed", recordId |-> recId]

\* variant: the classification the module documentation describes, every
\* record that is not a DATA_MESSAGE set to ProcessingFailed
ProcessRecordAsDocumented(r) ==
    LET data == Envelope(r)
        recId == r.recordId
    IN IF data.messageType = "DATA_MESSAGE"
       THEN LET encodedData == b64encode(DataBytes(data))
            IN IF WithinRecordLimit(encodedData)
               THEN OkRecord(recId, encodedData)
               ELSE FailedRecord(recId)
       ELSE FailedRecord(recId)

\* the record processRecords yields for one input record that decodes
ProcessRecord(r) ==
    LET data == Envelope(r)
        recId == r.recordId
    IN IF data.messageType = "CONTROL_MESSAGE"
       THEN DroppedRecord(recId)
       ELSE IF data.messageType = "DATA_MESSAGE"
       THEN LET encodedData == b64encode(DataBytes(data))
            IN IF WithinRecordLimit(encodedData)
               THEN OkRecord(recId, encodedData)
               ELSE FailedRecord(recId)
       ELSE FailedRecord(recId)

\* variant: control records yield nothing
processRecordsSkippingControl(recs) ==
    SelectSeq([i \in DOMAIN recs |-> ProcessRecord(recs[i])],
              LAMBDA o : o.result # "Dropped")

\* list(processRecords(recs)) when no record raises
processRecords(recs) == [i \in DOMAIN recs |-> ProcessRecord(recs[i])]

\* the generator raises at the first record that fails to gunzip or parse
ProcessRaises(recs) == \E i \in DOMAIN recs : ~Decodes(recs[i])

(***************************************************************************)
(* Re-ingestion records                                                    *)
(***************************************************************************)
createReingestionRecord(isSas, originalRecord) ==
    IF isSas
    THEN [data |-> b64decode(originalRecord.data),
          partitionKey |-> originalRecord.kinesisRecordMetadata.partitionKey]
    ELSE [data |-> b64decode(originalRecord.data)]

\* variant: the partition key left out
getReingestionRecordWithoutKey(isSas, reIngestionRecord) ==
    [Data |-> reIngestionRecord.data]

getReingestionRecord(isSas, reIngestionRecord) ==
    IF isSas
    THEN [Data |-> reIngestionRecord.data,
          PartitionKey |-> reIngestionRecord.partitionKey]
    ELSE [Data |-> reIngestionRecord.data]

\* {rec['recordId']: createReingestionRecord(isSas, rec) for rec in ...}:
\* a later record with the same recordId replaces an earlier one
LastIndexOf(recs, recId) ==
    LET same == {i \in DOMAIN recs : recs[i].recordId = recId}
    IN CHOOSE i \in same : \A j \in same : j <= i

dataByRecordId(isSas, recs, recId) ==
    createReingestionRecord(isSas, recs[LastIndexOf(recs, recId)])

\* variant: the data field left in place
EvictKeepingData(rec) == [rec EXCEPT !.result = "Dropped"]

\* records[idx]['result'] = 'Dropped'; del(records[idx]['data'])
Evict(rec) ==
    [k \in DOMAIN rec \ {"data"} |-> IF k = "result" THEN "Dropped" ELSE rec[k]]

\* variant: the recordId not counted
AccumulateDataOnly(size, rec) == size + EncodedLen(rec.data)

\* projectedSize += len(rec['data']) + len(rec['recordId'])
Accumulate(size, rec) == size + EncodedLen(rec.data) + Len(rec.recordId)

\* variant: the payload limit of the platform used as the ceiling
OverBudgetPlatformLimit(size) == size > 6291456

OverBudget(size) == size > BatchLimit

GroupFull(group) == Len(group) = GroupSize

(***************************************************************************)
(* Inputs of the model                                                     *)
(***************************************************************************)
NoFields == [k \in {} |-> Text("")]

PlainMessage ==
    [v |-> "boot ok", len |-> 7, esc |-> 0, ws |-> 0,
     isObject |-> FALSE, fields |-> NoFields]

\* the text {"level":"info"} followed by a newline
ObjectMessage ==
    [v |-> "{level:info}", len |-> 17, esc |-> 4, ws |-> 1,
     isObject |-> TRUE, fields |-> [k \in {"level"} |-> Text("info")]]

\* the text {"@id":"x"}
ReservedKeyMessage ==
    [v |-> "{@id:x}", len |-> 11, esc |-> 4, ws |-> 0,
     isObject |-> TRUE, fields |-> [k \in {"@id"} |-> Text("x")]]

\* a plain text of n characters
BulkMessage(n) ==
    [v |-> "bulk", len |-> n, esc |-> 0, ws |-> 0,
     isObject |-> FALSE, fields |-> NoFields]

LogEvent(id, ts, msg) == [id |-> Text(id), timestamp |-> ts, message |-> msg]

MakeEnvelope(messageType, logEvents) ==
    [messageType |-> messageType,
     owner |-> Text("123456789012"),
     logGroup |-> Text("log_group_name"),
     logStream |-> Text("log_stream_name"),
     logEvents |-> logEvents]

\* a DATA_MESSAGE with one log event whose transformed bytes are n long
BulkEnvelope(n) ==
    LET empty == MakeEnvelope("DATA_MESSAGE", <<LogEvent("e1", 86400000, BulkMessage(0))>>)
    IN MakeEnvelope("DATA_MESSAGE",
           <<LogEvent("e1", 86400000, BulkMessage(n - DataBytes(empty).len))>>)

SmallEnvelope ==
    MakeEnvelope("DATA_MESSAGE",
        <<LogEvent("e1", 86400016, PlainMessage),
          LogEvent("e2", 86401000, ObjectMessage),
          LogEvent("e3", 86401000, ReservedKeyMessage)>>)

Gzipped(envelope) == [intact |-> TRUE, gzip |-> [valid |-> TRUE, json |-> envelope]]
BadGzip(envelope) == [intact |-> FALSE, gzip |-> [valid |-> TRUE, json |-> envelope]]
BadJson(envelope) == [intact |-> TRUE, gzip |-> [valid |-> FALSE, json |-> envelope]]

\* recordId, payload and partition key of the records the batches are made
\* of; two of them share a recordId
Templates ==
    <<[id |-> "a", pk |-> "p1", payload |-> Gzipped(MakeEnvelope("CONTROL_MESSAGE", <<>>))],
      [id |-> "b", pk |-> "p2", payload |-> Gzipped(MakeEnvelope("OTHER_MESSAGE", <<>>))],
      [id |-> "c", pk |-> "p3", payload |-> BadGzip(SmallEnvelope)],
      [id |-> "dddd", pk |-> "p4", payload |-> Gzipped(SmallEnvelope)],
      [id |-> "dddd", pk |-> "p5", payload |-> Gzipped(BulkEnvelope(4499997))],
      [id |-> "f", pk |-> "p6", payload |-> Gzipped(BulkEnvelope(4500000))],
      [id |-> "h", pk |-> "p7", payload |-> Gzipped(BulkEnvelope(4500001))],
      [id |-> "i", pk |-> "p8", payload |-> BadJson(SmallEnvelope)]>>

InputRecord(isSas, id, pk, payload) ==
    IF isSas
    THEN [recordId |-> id, data |-> b64encode(payload),
          kinesisRecordMetadata |-> [partitionKey |-> pk]]
    ELSE [recordId |-> id, data |-> b64encode(payload)]

FromTemplate(isSas, t) == InputRecord(isSas, Templates[t].id, Templates[t].pk, Templates[t].payload)

\* the batch made of the templates ts, in order
SmallBatch(isSas, ts) == [i \in DOMAIN ts |-> FromTemplate(isSas, ts[i])]

\* a control record, a record of another type, a small data record, a
\* record that exceeds the budget by itself, then n data records without
\* log events, with recordIds of their own
Filler(isSas, i) ==
    InputRecord(isSas, "r" \o ToString(i), "q" \o ToString(i),
                Gzipped([messageType |-> "DATA_MESSAGE", logEvents |-> <<>>]))

LongBatch(isSas, n) ==
    [i \in 1..(n + 4) |->
        IF i = 1 THEN InputRecord(isSas, "a", "p1", Gzipped(MakeEnvelope("CONTROL_MESSAGE", <<>>)))
        ELSE IF i = 2 THEN InputRecord(isSas, "b", "p2", Gzipped(MakeEnvelope("OTHER_MESSAGE", <<>>)))
        ELSE IF i = 3 THEN InputRecord(isSas, "dddd", "p4", Gzipped(SmallEnvelope))
        ELSE IF i = 4 THEN InputRecord(isSas, "f", "p6", Gzipped(BulkEnvelope(4500000)))
        ELSE Filler(isSas, i - 4)]

\* the number of evicted records is a multiple of GroupSize for a delivery
\* stream and one more than a multiple for a Kinesis stream
LongLength(isSas) == MaxGroups * GroupSize + (IF isSas THEN 0 ELSE -1)

\* the invocation inputs: every batch of at most MaxBatch templates, and one
\* long batch, from a Kinesis stream or from a delivery stream
IsEvent(e) ==
    \E isSas \in BOOLEAN :
        \/ \E n \in 0..MaxBatch : \E ts \in [1..n -> DOMAIN Templates] :
              e = [isSas |-> isSas, records |-> SmallBatch(isSas, ts)]
        \/ e = [isSas |-> isSas, records |-> LongBatch(isSas, LongLength(isSas))]

(***************************************************************************)
(* lambda_handler                                                          *)
(***************************************************************************)
Init ==
    /\ IsEvent(event)
    /\ pc = "start"
    /\ records = <<>>
    /\ projectedSize = 0
    /\ recordsToReingest = <<>>
    /\ putRecordBatches = <<>>
    /\ totalRecordsToBeReingested = 0
    /\ batchNo = 0
    /\ putArgs = <<>>
    /\ putPos = <<>>
    /\ attemptsMade = 0
    /\ lastStatus = <<>>
    /\ recordsReingestedSoFar = 0
    /\ putCalls = 0
    /\ lastCountZero = FALSE
    /\ raised = "none"

\* records = list(processRecords(event['records'])) and the initialisations
\* that follow it; an exception of the generator ends the invocation
Process ==
    /\ pc = "start"
    /\ IF ProcessRaises(event.records)
       THEN /\ pc' = "raised"
            /\ raised' = "decode"
            /\ UNCHANGED records
       ELSE /\ pc' = "budget"
            /\ records' = processRecords(event.records)
            /\ UNCHANGED raised
    /\ UNCHANGED <<event, projectedSize, recordsToReingest,
                   putRecordBatches, totalRecordsToBeReingested, batchNo,
                   putArgs, putPos, attemptsMade, lastStatus,
                   recordsReingestedSoFar, putCalls, lastCountZero>>

\* one iteration of "for idx, rec in enumerate(records)" on the locals st
BudgetStep(st, idx) ==
    LET rec == st.records[idx]
    IN IF rec.result # "Ok"
       THEN st
       ELSE LET size == Accumulate(st.projectedSize, rec)
                evict == OverBudget(size)
                group == IF evict
                         THEN Append(st.recordsToReingest,
                                  getReingestionRecord(event.isSas,
                                      dataByRecordId(event.isSas, event.records, rec.recordId)))
                         ELSE st.recordsToReingest
            IN [records |-> IF evict THEN [st.records EXCEPT ![idx] = Evict(rec)]
                            ELSE st.records,
                projectedSize |-> size,
                totalRecordsToBeReingested |->
                    IF evict THEN st.totalRecordsToBeReingested + 1
                    ELSE st.totalRecordsToBeReingested,
                recordsToReingest |-> IF GroupFull(group) THEN <<>> ELSE group,
                putRecordBatches |->
                    IF GroupFull(group) THEN Append(st.putRecordBatches, group)
                    ELSE st.putRecordBatches]

\* the iterations lo..hi of the loop, in order: the first half, then the
\* second half from the locals the first half ends with
RECURSIVE BudgetLoop(_, _, _)
BudgetLoop(st, lo, hi) ==
    IF lo > hi THEN st
    ELSE IF lo = hi THEN BudgetStep(st, lo)
    ELSE LET mid == (lo + hi) \div 2
         IN CHOOSE end \in {BudgetLoop(left, mid + 1, hi) :
                               left \in {BudgetLoop(st, lo, mid)}} : TRUE

\* variant: the pending group added even when it is empty
FinalBatchesAlways(batches, pending) == Append(batches, pending)

\* variant: the last, partial group forgotten
FinalBatchesDroppingPending(batches, pending) == batches

\* the groups once the last, partial one is added
FinalBatches(batches, pending) ==
    IF Len(pending) > 0 THEN Append(batches, pending) ELSE batches

\* the size-budget loop over all the records, the last group, then either
\* the first put call is prepared or, with no group, the records are
\* returned
SizeBudgetPass ==
    /\ pc = "budget"
    /\ \E st \in {BudgetLoop([records |-> records,
                             projectedSize |-> projectedSize,
                             totalRecordsToBeReingested |-> totalRecordsToBeReingested,
                             recordsToReingest |-> recordsToReingest,
                             putRecordBatches |-> putRecordBatches],
                            1, Len(records))} :
       \E batches \in {FinalBatches(st.putRecordBatches, st.recordsToReingest)} :
          /\ records' = st.records
          /\ projectedSize' = st.projectedSize
          /\ totalRecordsToBeReingested' = st.totalRecordsToBeReingested
          /\ recordsToReingest' = st.recordsToReingest
          /\ putRecordBatches' = batches
          /\ lastStatus' = [g \in DOMAIN batches |-> [i \in DOMAIN batches[g] |-> "none"]]
          /\ IF Len(batches) > 0
             THEN /\ pc' = "put"
                  /\ batchNo' = 1
                  /\ putArgs' = batches[1]
                  /\ putPos' = [i \in DOMAIN batches[1] |-> i]
             ELSE /\ pc' = "done"
                  /\ UNCHANGED <<batchNo, putArgs, putPos>>
    /\ UNCHANGED <<event, attemptsMade, recordsReingestedSoFar, putCalls,
                   lastCountZero, raised>>

(***************************************************************************)
(* The stream: what one put call can answer                                *)
(***************************************************************************)
Delivered == [RecordId |-> "rid"]
DeliveredEmptyCode == [RecordId |-> "rid", ErrorCode |-> ""]
Rejected == [ErrorCode |-> "ServiceUnavailableException", ErrorMessage |-> "slow down"]

\* the stream reports the entry as failed
HasError(res) == "ErrorCode" \in DOMAIN res /\ res.ErrorCode # ""

\* per-entry results of a call with m entries: for a short call every
\* choice of the rejected entries, the others delivered with or without an
\* empty code; for a long one: none, the first, the first and the last or
\* all rejected
ResultLists(m) ==
    IF m <= MaxFullResponse
    THEN [1..m -> {Delivered, Rejected}] \cup [1..m -> {DeliveredEmptyCode, Rejected}]
    ELSE {[i \in 1..m |-> Delivered],
          [i \in 1..m |-> IF i = 1 THEN Rejected ELSE Delivered],
          [i \in 1..m |-> IF i \in {1, m} THEN Rejected ELSE DeliveredEmptyCode],
          [i \in 1..m |-> Rejected]}

\* the aggregate count the stream reports with the per-entry results
FailedCount(results) == Cardinality({i \in DOMAIN results : HasError(results[i])})

\* a put call either raises or returns a response, whose aggregate count is
\* the number of entries reported with an error code
Outcomes(m) ==
    {[raises |-> TRUE, results |-> <<>>, count |-> 0]}
        \cup {[raises |-> FALSE, results |-> rs, count |-> FailedCount(rs)] :
                 rs \in ResultLists(m)}

\* the same with a stream whose aggregate count may disagree with the
\* per-entry results: zero, the true count or the number of entries
OutcomesAnyCount(m) ==
    {[raises |-> TRUE, results |-> <<>>, count |-> 0]}
        \cup UNION {{[raises |-> FALSE, results |-> rs, count |-> n] :
                          n \in {0, FailedCount(rs), m}} : rs \in ResultLists(m)}

\* what the miscounting stream answers to the current call: the counts
\* disagree for the groups of at most MaxFullResponse entries
OutcomesOfMiscountingStream ==
    IF Len(putRecordBatches[batchNo]) <= MaxFullResponse
    THEN OutcomesAnyCount(Len(putArgs))
    ELSE Outcomes(Len(putArgs))

FirehoseResponse(outcome) ==
    [FailedPutCount |-> outcome.count, RequestResponses |-> outcome.results]

KinesisResponse(outcome) ==
    [FailedRecordCount |-> outcome.count, Records |-> outcome.results]

(***************************************************************************)
(* putRecordsToFirehoseStream / putRecordsToKinesisStream                  *)
(***************************************************************************)
Indices(m) == [i \in 1..m |-> i]

\* variant: the test on the error code inverted
NeedsRetryInverted(res) == "ErrorCode" \notin DOMAIN res \/ res.ErrorCode = ""

\* 'ErrorCode' not in res or not res['ErrorCode']  =>  continue
NeedsRetry(res) == ~("ErrorCode" \notin DOMAIN res \/ res.ErrorCode = "")

\* variant: the per-record results inspected whatever the aggregate count
FirehoseFailedAlwaysInspecting(m, raises, response) ==
    IF raises THEN Indices(m)
    ELSE SelectSeq(Indices(m), LAMBDA i : NeedsRetry(response.RequestResponses[i]))

\* indices (into the submitted list) of failedRecords after the call
FirehoseFailed(m, raises, response) ==
    IF raises THEN Indices(m)
    ELSE IF response.FailedPutCount > 0
    THEN SelectSeq(Indices(m), LAMBDA i : NeedsRetry(response.RequestResponses[i]))
    ELSE <<>>

\* variant: the whole list retried after a partial failure
KinesisFailedWholeList(m, raises, response) ==
    IF raises THEN Indices(m)
    ELSE IF response.FailedRecordCount > 0
    THEN Indices(m)
    ELSE <<>>

KinesisFailed(m, raises, response) ==
    IF raises THEN Indices(m)
    ELSE IF response.FailedRecordCount > 0
    THEN SelectSeq(Indices(m), LAMBDA i : NeedsRetry(response.Records[i]))
    ELSE <<>>

\* variant: one attempt too many
MayRetryOffByOne(made) == made + 1 <= MaxAttempts

\* attemptsMade + 1 < maxAttempts
MayRetry(made) == made + 1 < MaxAttempts

\* the stream's verdict on the entries submitted in this call
Verdicts(outcome) ==
    [i \in DOMAIN putArgs |->
        IF outcome.raises \/ HasError(outcome.results[i]) THEN "failed" ELSE "accepted"]

\* the call returns: lambda_handler counts the group and goes on to the
\* next one, or returns the records after the last one
ReturnFromPut ==
    /\ recordsReingestedSoFar' =
           recordsReingestedSoFar + Len(putRecordBatches[batchNo])
    /\ IF batchNo < Len(putRecordBatches)
       THEN /\ batchNo' = batchNo + 1
            /\ putArgs' = putRecordBatches[batchNo + 1]
            /\ putPos' = Indices(Len(putRecordBatches[batchNo + 1]))
            /\ attemptsMade' = 0
            /\ UNCHANGED <<pc, raised>>
       ELSE /\ pc' = "done"
            /\ UNCHANGED <<batchNo, putArgs, putPos, attemptsMade, raised>>

\* the writer calls itself with the failed records and attemptsMade + 1
Recurse(failed) ==
    /\ putArgs' = [k \in DOMAIN failed |-> putArgs[failed[k]]]
    /\ putPos' = [k \in DOMAIN failed |-> putPos[failed[k]]]
    /\ attemptsMade' = attemptsMade + 1
    /\ UNCHANGED <<pc, batchNo, recordsReingestedSoFar, raised>>

\* variant: the exhaustion logged and the dispatch loop left to go on
RaiseFatalSwallowed == ReturnFromPut

\* raise RuntimeError('Could not put records after ...'): nothing catches
\* it, lambda_handler ends without a return value
RaiseFatal ==
    /\ pc' = "raised"
    /\ raised' = "exhausted"
    /\ UNCHANGED <<batchNo, putArgs, putPos, attemptsMade, recordsReingestedSoFar>>

\* what follows one put call whose failedRecords are at `failed`:
\* return (and go on to the next group or return the records), recurse
\* with the failed records, or raise
AfterPut(failed, outcome) ==
    /\ putCalls' = IF attemptsMade = 0 THEN 1 ELSE putCalls + 1
    /\ lastCountZero' = (~outcome.raises /\ outcome.count = 0)
    /\ lastStatus' =
          [lastStatus EXCEPT ![batchNo] =
              LET verdict == Verdicts(outcome)
                  submitted == Range(putPos)
                  \* putPos is increasing: it is the identity when whole
                  at(p) == IF Len(putPos) = Len(@) THEN p
                           ELSE CHOOSE i \in DOMAIN putPos : putPos[i] = p
              IN [p \in DOMAIN @ |-> IF p \in submitted THEN verdict[at(p)] ELSE @[p]]]
    /\ IF Len(failed) > 0
       THEN IF MayRetry(attemptsMade)
            THEN Recurse(failed)
            ELSE RaiseFatal
       ELSE ReturnFromPut
    /\ UNCHANGED <<event, records, projectedSize, recordsToReingest,
                   putRecordBatches, totalRecordsToBeReingested>>

\* one call of the writer with the stream answering `outcome`
FirehoseCall(outcome) ==
    AfterPut(FirehoseFailed(Len(putArgs), outcome.raises, FirehoseResponse(outcome)),
             outcome)

KinesisCall(outcome) ==
    AfterPut(KinesisFailed(Len(putArgs), outcome.raises, KinesisResponse(outcome)),
             outcome)

PutRecordsToFirehoseStream ==
    /\ pc = "put"
    /\ ~event.isSas
    /\ \E outcome \in Outcomes(Len(putArgs)) : FirehoseCall(outcome)

PutRecordsToKinesisStream ==
    /\ pc = "put"
    /\ event.isSas
    /\ \E outcome \in Outcomes(Len(putArgs)) : KinesisCall(outcome)

\* the writers against a stream whose aggregate count may disagree with
\* its per-entry results
PutRecordsToFirehoseStreamAnyCount ==
    /\ pc = "put"
    /\ ~event.isSas
    /\ \E outcome \in OutcomesOfMiscountingStream : FirehoseCall(outcome)

PutRecordsToKinesisStreamAnyCount ==
    /\ pc = "put"
    /\ event.isSas
    /\ \E outcome \in OutcomesOfMiscountingStream : KinesisCall(outcome)

Next ==
    \/ Process
    \/ SizeBudgetPass
    \/ PutRecordsToFirehoseStream
    \/ PutRecordsToKinesisStream

Spec == Init /\ [][Next]_vars

NextAnyCount ==
    \/ Process
    \/ SizeBudgetPass
    \/ PutRecordsToFirehoseStreamAnyCount
    \/ PutRecordsToKinesisStreamAnyCount

SpecAnyCount == Init /\ [][NextAnyCount]_vars

(***************************************************************************)
(* Vocabulary of the properties                                            *)
(***************************************************************************)
Returned == pc = "done"

\* processRecords has run and has not raised
IsClassified == pc # "start" /\ raised # "decode"

\* the size-budget loop is over and the groups are built
GroupsBuilt == pc \in {"put", "done"} \/ raised = "exhausted"

\* what processRecords yields for the input, before the size-budget pass
Classified == processRecords(event.records)

\* len(data) + len(recordId) of the records with result Ok, 0 for the others
OkSizes(recs) ==
    [i \in DOMAIN recs |->
        IF recs[i].result = "Ok"
        THEN EncodedLen(recs[i].data) + Len(recs[i].recordId)
        ELSE 0]

Total(sizes) == SumRange(sizes, 1, Len(sizes))

\* indices of the records the size-budget pass rewrote from Ok to Dropped
EvictedIndices(cls, out) ==
    SelectSeq([i \in DOMAIN cls |-> i],
              LAMBDA i : cls[i].result = "Ok" /\ out[i].result = "Dropped")

\* the entries of all groups, in order
AllEntries == Flatten(putRecordBatches)

\* the original bytes of input record i are in no re-ingestion entry
NotReingested(i) ==
    \A original \in {b64decode(event.records[i].data)} :
        \A g \in DOMAIN putRecordBatches :
            \A p \in DOMAIN putRecordBatches[g] : putRecordBatches[g][p].Data # original

(***************************************************************************)
(* C1: when lambda_handler returns, the returned records are as many as    *)
(* the input records and record i carries the recordId of input record i,  *)
(* so no input record contributes more than one output record.             *)
(***************************************************************************)
C1_OutputMatchesInput ==
    Returned =>
        /\ Len(records) = Len(event.records)
        /\ \A i \in DOMAIN records : records[i].recordId = event.records[i].recordId

\* a full batch was returned after the size-budget pass evicted a record
C1_Witness ==
    /\ Returned
    /\ Len(records) = MaxBatch
    /\ EvictedIndices(Classified, records) # <<>>

(***************************************************************************)
(* C2: in the returned records, the sum of len(data) + len(recordId) over  *)
(* the records with result Ok is at most 6,000,000; a record kept Ok keeps *)
(* its whole data, and a record taken out is Dropped without data.         *)
(***************************************************************************)
C2_OkWithinCeiling ==
    Returned =>
        LET cls == Classified
        IN /\ Total(OkSizes(records)) <= BatchLimit
           /\ \A i \in DOMAIN records :
                 /\ records[i].result = "Ok" => records[i] = cls[i]
                 /\ cls[i].result = "Ok" /\ records[i].result # "Ok" =>
                        records[i] = DroppedRecord(cls[i].recordId)

\* the records kept Ok fill the ceiling exactly and another one was evicted
C2_Witness ==
    /\ Returned
    /\ Total(OkSizes(records)) = BatchLimit
    /\ EvictedIndices(Classified, records) # <<>>

(***************************************************************************)
(* C3: with k the first Ok-classified record at which the running total    *)
(* of len(data) + len(recordId) exceeds 6,000,000, every Ok-classified     *)
(* record from k on is returned Dropped without data and every one before  *)
(* k is returned Ok with its data unchanged; with no such k nothing is     *)
(* rewritten.                                                              *)
(***************************************************************************)
C3_TailEvicted ==
    Returned =>
        LET cls == Classified
            sizes == OkSizes(cls)
            running(i) == SumRange(sizes, 1, i)
        IN IF Total(sizes) <= BatchLimit
           THEN records = cls
           ELSE \* the sizes are not negative: the total crosses the ceiling once
                LET k == CHOOSE i \in DOMAIN cls :
                             running(i) > BatchLimit /\ running(i - 1) <= BatchLimit
                IN \A i \in DOMAIN cls :
                      IF cls[i].result = "Ok" /\ i >= k
                      THEN records[i] = DroppedRecord(cls[i].recordId)
                      ELSE records[i] = cls[i]

\* a record was evicted that fits in what the records kept Ok leave free
C3_Witness ==
    /\ Returned
    /\ LET cls == Classified
           sizes == OkSizes(cls)
           evicted == EvictedIndices(cls, records)
       IN \E j \in DOMAIN evicted :
             Total(OkSizes(records)) + sizes[evicted[j]] <= BatchLimit

(***************************************************************************)
(* C4: a record that fails to gunzip or to parse gets ProcessingFailed     *)
(* and the invocation goes on: only the exhaustion of the retries ends an  *)
(* invocation with an exception.                                           *)
(***************************************************************************)
C4_OnlyExhaustionAborts ==
    pc = "raised" => raised = "exhausted"

(***************************************************************************)
(* C5: a CONTROL_MESSAGE record is Dropped without data, its bytes are in  *)
(* no re-ingestion entry and it adds nothing to the running total; a       *)
(* record of any other messageType than DATA_MESSAGE and CONTROL_MESSAGE   *)
(* is ProcessingFailed.                                                    *)
(***************************************************************************)
MessageType(i) == Envelope(event.records[i]).messageType

EncodedSize(i) == EncodedLen(b64encode(DataBytes(Envelope(event.records[i]))))

\* processRecords has just returned
JustClassified == pc = "budget"

C6_OversizeFails ==
    /\ JustClassified =>
          \A i \in DOMAIN event.records :
              MessageType(i) = "DATA_MESSAGE" /\ EncodedSize(i) = RecordLimit =>
                 /\ records[i].result = "Ok"
                 /\ EncodedLen(records[i].data) = RecordLimit
    /\ GroupsBuilt =>
          \* the encoded size of the data records, 0 for the others
          \A size \in {[i \in DOMAIN event.records |->
                           IF MessageType(i) = "DATA_MESSAGE" THEN EncodedSize(i) ELSE 0]} :
             /\ \A i \in DOMAIN event.records :
                   size[i] > RecordLimit =>
                      /\ records[i] = FailedRecord(event.records[i].recordId)
                      /\ NotReingested(i)
             /\ projectedSize =
                   Total([i \in DOMAIN event.records |->
                             IF MessageType(i) = "DATA_MESSAGE" /\ size[i] <= RecordLimit
                             THEN size[i] + Len(event.records[i].recordId)
                             ELSE 0])

\* a batch with an oversize record and a record of exactly 6,000,000 was
\* returned after a record was evicted and re-ingested
C6_Witness ==
    /\ Returned
    /\ \E i \in DOMAIN event.records :
          MessageType(i) = "DATA_MESSAGE" /\ EncodedSize(i) > RecordLimit
    /\ \E i \in DOMAIN event.records :
          MessageType(i) = "DATA_MESSAGE" /\ EncodedSize(i) = RecordLimit
    /\ AllEntries # <<>>

(***************************************************************************)
(* C7: in every record of the list, after the classification and after     *)
(* the size-budget pass, the result is Ok, Dropped or ProcessingFailed and *)
(* the data field is present exactly when the result is Ok.                *)
(***************************************************************************)
C7_DataIffOk ==
    \A i \in DOMAIN records :
        /\ records[i].result \in {"Ok", "Dropped", "ProcessingFailed"}
        /\ "data" \in DOMAIN records[i] <=> records[i].result = "Ok"

\* the returned records hold an Ok record, a ProcessingFailed record and a
\* record the size-budget pass rewrote to Dropped
C7_Witness ==
    /\ Returned
    /\ \E i \in DOMAIN records : records[i].result = "Ok"
    /\ \E i \in DOMAIN records : records[i].result = "ProcessingFailed"
    /\ EvictedIndices(Classified, records) # <<>>

(***************************************************************************)
(* C8: with unique recordIds, the groups hold one entry per evicted        *)
(* record, in eviction order, the Data of each entry is the base64-decoded *)
(* input data of that record, and the entry has a PartitionKey (that of    *)
(* the record) exactly when the event carries sourceKinesisStreamArn.      *)
(***************************************************************************)
UniqueRecordIds ==
    Cardinality({event.records[i].recordId : i \in DOMAIN event.records})
        = Len(event.records)

C8_OneEntryPerEvicted ==
    GroupsBuilt /\ UniqueRecordIds =>
        \A cls \in {Classified} :
        \A evicted \in {EvictedIndices(cls, records)} :
        \A entries \in {AllEntries} :
           /\ Len(entries) = Len(evicted)
           /\ totalRecordsToBeReingested = Len(evicted)
           /\ \A j \in DOMAIN entries :
                 LET original == event.records[evicted[j]]
                 IN /\ entries[j].Data = b64decode(original.data)
                    /\ entries[j].Data # cls[evicted[j]].data.b64
                    /\ "PartitionKey" \in DOMAIN entries[j] <=> event.isSas
                    /\ event.isSas =>
                          entries[j].PartitionKey = original.kinesisRecordMetadata.partitionKey

\* two records with recordIds of their own were evicted from a Kinesis batch
C8_Witness ==
    /\ GroupsBuilt
    /\ UniqueRecordIds
    /\ event.isSas
    /\ Len(event.records) <= MaxBatch
    /\ Len(AllEntries) >= 2

(***************************************************************************)
(* C9: every group holds between 1 and 500 entries, every group but the    *)
(* last holds exactly 500, and the groups put end to end are the entries   *)
(* of the evicted records in eviction order.                               *)
(***************************************************************************)
\* the entry the pass builds for the record at index i: looked up by recordId
EntryOf(i) ==
    getReingestionRecord(event.isSas,
        dataByRecordId(event.isSas, event.records, event.records[i].recordId))

\* the state the size-budget pass ends in
JustBuilt ==
    \/ pc = "put" /\ batchNo = 1 /\ attemptsMade = 0
    \/ pc = "done" /\ putRecordBatches = <<>>

C9_GroupsOfAtMost500 ==
    GroupsBuilt =>
        /\ recordsToReingest = <<>> \/ recordsToReingest = putRecordBatches[Len(putRecordBatches)]
        /\ \A g \in DOMAIN putRecordBatches :
              /\ Len(putRecordBatches[g]) >= 1
              /\ Len(putRecordBatches[g]) <= GroupSize
              /\ g < Len(putRecordBatches) => Len(putRecordBatches[g]) = GroupSize
        /\ JustBuilt =>
              LET evicted == EvictedIndices(Classified, records)
              IN Flatten(putRecordBatches) = [j \in DOMAIN evicted |-> EntryOf(evicted[j])]

\* the evicted records fill two groups or more and the last group is full
C9_Witness ==
    /\ JustBuilt
    /\ Len(putRecordBatches) >= 2
    /\ Len(putRecordBatches[Len(putRecordBatches)]) = GroupSize

(***************************************************************************)
(* C10: a group whose call has returned has every entry accepted by the    *)
(* stream in the attempt that submitted it last; otherwise the call is     *)
(* still retrying or has raised the fatal error.                           *)
(***************************************************************************)
\* the call for group g has returned normally
GroupReturned(g) == g < batchNo \/ (g = batchNo /\ pc = "done")

C10_ReturnMeansAccepted ==
    GroupsBuilt =>
        \A g \in DOMAIN putRecordBatches :
            /\ GroupReturned(g) =>
                  \A p \in DOMAIN lastStatus[g] : lastStatus[g][p] = "accepted"
            /\ (\E p \in DOMAIN lastStatus[g] : lastStatus[g][p] = "failed") =>
                  g = batchNo /\ (pc = "put" \/ raised = "exhausted")

\* a group of two entries returned after more than one put call
C10_Witness ==
    /\ Returned
    /\ batchNo = 1
    /\ Len(putRecordBatches[1]) >= 2
    /\ putCalls >= 3

(***************************************************************************)
(* C11: the retry of a group ends and makes at most maxAttempts (20) put   *)
(* calls: a call that leaves records to retry is followed by a call with   *)
(* attemptsMade + 1 when attemptsMade + 1 < maxAttempts, and raises the    *)
(* fatal error when attemptsMade = maxAttempts - 1; every other call       *)
(* returns.  The retry ends because every put call lowers the number of    *)
(* calls that can still follow it, which is never negative.                *)
(***************************************************************************)
\* the stream's verdict on the k-th entry the put call of this step submitted
StepVerdict(k) == lastStatus'[batchNo][putPos[k]]

\* the put call of this step left an entry to retry: it raised, or the
\* response reports an entry with a non-empty error code
LeftToRetry == \E k \in DOMAIN putPos : StepVerdict(k) = "failed"

\* the writer called itself once more for the same group
Recursed ==
    /\ pc' = "put"
    /\ batchNo' = batchNo
    /\ attemptsMade' = attemptsMade + 1

\* the call for the group returned to lambda_handler
CallReturned ==
    /\ raised' = "none"
    /\ \/ pc' = "done" /\ batchNo' = batchNo
       \/ pc' = "put" /\ batchNo' = batchNo + 1 /\ attemptsMade' = 0

\* the put calls that can still be made: those left to the group being
\* written and maxAttempts for every group after it
RemainingCalls ==
    IF pc = "put"
    THEN (MaxAttempts - attemptsMade) + (Len(putRecordBatches) - batchNo) * MaxAttempts
    ELSE 0

C11_RetryBounded ==
    /\ [](/\ attemptsMade < MaxAttempts
          /\ putCalls <= MaxAttempts
          /\ pc = "put" /\ attemptsMade > 0 => putCalls = attemptsMade
          /\ raised = "exhausted" =>
                attemptsMade = MaxAttempts - 1 /\ putCalls = MaxAttempts)
    /\ [][pc = "put" =>
            IF LeftToRetry
            THEN IF attemptsMade + 1 < MaxAttempts
                 THEN Recursed
                 ELSE raised' = "exhausted" /\ pc' = "raised"
            ELSE CallReturned]_vars
    /\ [](RemainingCalls >= 0)
    /\ [][pc = "put" => RemainingCalls' < RemainingCalls]_vars

\* the twentieth call for a group left one of its entries to retry
C11_Witness ==
    /\ raised = "exhausted"
    /\ putCalls = MaxAttempts
    /\ Len(putArgs) < Len(putRecordBatches[batchNo])

(***************************************************************************)
(* C12: a put call that does not raise and whose response reports no       *)
(* entry with a non-empty error code returns, at any attemptsMade, and so  *)
(* does a put call whose response has an aggregate failed count of zero,   *)
(* whatever its per-entry results are.                                     *)
(***************************************************************************)
C12_NoErrorNoRetry ==
    [][pc = "put" =>
          /\ ~LeftToRetry => CallReturned
          /\ lastCountZero' => CallReturned]_vars

\* the twentieth call for a group returned with a count of zero while the
\* stream had reported one of its entries with an error code
C12_Witness ==
    /\ pc \in {"put", "done"}
    /\ putCalls = MaxAttempts
    /\ lastCountZero
    /\ \E g \in DOMAIN lastStatus :
          /\ GroupReturned(g)
          /\ \E p \in DOMAIN lastStatus[g] : lastStatus[g][p] = "failed"

(***************************************************************************)
(* C13: a retry submits exactly the entries the previous attempt left      *)
(* failed, in the same order: the whole list after a call that raised,     *)
(* the entries reported with a non-empty error code otherwise.  An entry   *)
(* reported delivered is not submitted again for the group, and the list   *)
(* never grows.                                                            *)
(***************************************************************************)
\* positions (in the submitted list) the put call of this step left failed
StepFailed ==
    SelectSeq(Indices(Len(putArgs)), LAMBDA k : StepVerdict(k) = "failed")

C13_RetriesFailedSubset ==
    /\ [](pc = "put" =>
            /\ Len(putPos) = Len(putArgs)
            /\ \A k \in DOMAIN putPos :
                  /\ putArgs[k] = putRecordBatches[batchNo][putPos[k]]
                  /\ k > 1 => putPos[k - 1] < putPos[k]
            /\ attemptsMade > 0 =>
                  Range(putPos) = {p \in DOMAIN lastStatus[batchNo] :
                                      lastStatus[batchNo][p] = "failed"})
    /\ [][pc = "put" /\ Recursed =>
            \A kept \in {StepFailed} :
               /\ putPos' = [j \in DOMAIN kept |-> putPos[kept[j]]]
               /\ putArgs' = [j \in DOMAIN kept |-> putArgs[kept[j]]]
               /\ Len(kept) = Len(putArgs) => putArgs' = putArgs /\ putPos' = putPos
               /\ Len(putArgs') <= Len(putArgs)]_vars

\* a full group was cut down to its first and last entries, then to the
\* last one
C13_Witness ==
    /\ pc = "put"
    /\ attemptsMade >= 2
    /\ Len(putRecordBatches[batchNo]) = GroupSize
    /\ putPos = <<GroupSize>>

(***************************************************************************)
(* C14: when a group exhausts its attempts the fatal error ends            *)
(* lambda_handler: no records are returned and no later group is           *)
(* submitted.  The groups are written one after another in order: a group  *)
(* is submitted only after every group before it has returned.             *)
(***************************************************************************)
\* some put call has submitted group g
Submitted(g) == \E p \in DOMAIN lastStatus[g] : lastStatus[g][p] # "none"

\* every entry of group g was accepted in its last submission
Accepted(g) == \A p \in DOMAIN lastStatus[g] : lastStatus[g][p] = "accepted"

\* the entries of the first n groups
EntriesUpTo(n) ==
    SumRange([g \in DOMAIN putRecordBatches |-> Len(putRecordBatches[g])], 1, n)

C14_ExhaustionAbortsAll ==
    /\ [](GroupsBuilt =>
            /\ \A g \in DOMAIN putRecordBatches :
                  Submitted(g) => g <= batchNo /\ \A h \in 1..(g - 1) : Accepted(h)
            /\ pc = "put" \/ raised = "exhausted" =>
                  recordsReingestedSoFar = EntriesUpTo(batchNo - 1)
            /\ raised = "exhausted" => pc = "raised" /\ ~Accepted(batchNo))
    /\ [][pc = "put" /\ attemptsMade = MaxAttempts - 1 /\ LeftToRetry =>
            pc' = "raised" /\ raised' = "exhausted"]_vars
    /\ [][pc # "raised"]_vars

\* the second of three groups exhausted its attempts
C14_Witness ==
    /\ raised = "exhausted"
    /\ batchNo = 2
    /\ Len(putRecordBatches) = 3
    /\ recordsReingestedSoFar = GroupSize

(***************************************************************************)
(* C15: in every document transformLogEvent builds, the fields @id,        *)
(* @owner, @log_group, @log_stream, @timestamp and @message are present    *)
(* and hold the values derived from the envelope and the log event,        *)
(* whatever keys the message has; a message that is not a JSON object      *)
(* leaves the derived document as it is.                                   *)
(***************************************************************************)
\* the document lines of a payload, in order
Documents(payload) == SelectSeq(payload.lines, LAMBDA line : line.kind = "source")

C15_ReservedFieldsKept ==
    JustClassified =>
        \A i \in DOMAIN records :
            records[i].result = "Ok" =>
                LET data == Envelope(event.records[i])
                    docs == Documents(b64decode(records[i].data))
                IN /\ Len(docs) = Len(data.logEvents)
                   /\ \A j \in DOMAIN docs :
                         LET derived == Derived(data, data.logEvents[j])
                         IN /\ ReservedKeys \subseteq DOMAIN docs[j].doc
                            /\ \A k \in ReservedKeys : docs[j].doc[k] = derived[k]
                            /\ ~data.logEvents[j].message.isObject =>
                                   docs[j].doc = derived

(***************************************************************************)
(* C16: the payload of a DATA_MESSAGE record with n log events is, in the  *)
(* order of the events and with nothing between the fragments, the         *)
(* document line of the first event, then for every later event one        *)
(* index-action line followed by its document line: n document lines and   *)
(* n - 1 index-action lines (no line at all for n = 0).                    *)
(***************************************************************************)
C16_ActionBeforeLaterDocuments ==
    JustClassified =>
        \A i \in DOMAIN records :
            records[i].result = "Ok" =>
                LET data == Envelope(event.records[i])
                    n == Len(data.logEvents)
                    payload == b64decode(records[i].data)
                    lines == payload.lines
                IN /\ Len(lines) = IF n = 0 THEN 0 ELSE 2 * n - 1
                   /\ n > 0 => lines[1] = SourceLine(data, data.logEvents[1])
                   /\ \A j \in 2..n :
                         /\ lines[2 * j - 2].kind = "action"
                         /\ lines[2 * j - 2].index = LOGS_INDEX_PREFIX \o "-" \o Today
                         /\ lines[2 * j - 1] = SourceLine(data, data.logEvents[j])
                   /\ payload.len =
                         SumRange([l \in DOMAIN lines |-> lines[l].len + 1], 1, Len(lines))

\* a record with three log events was transformed
C16_Witness ==
    /\ JustClassified
    /\ \E i \in DOMAIN records :
          /\ records[i].result = "Ok"
          /\ Len(Envelope(event.records[i]).logEvents) = 3
          /\ Len(b64decode(records[i].data).lines) = 5

(***************************************************************************)
(* C17: as the module documentation has it, every record whose             *)
(* messageType is not DATA_MESSAGE gets the result ProcessingFailed.       *)
(***************************************************************************)
C17_NonDataFails ==
    JustClassified =>
        \A i \in DOMAIN records :
            MessageType(i) # "DATA_MESSAGE" => records[i].result = "ProcessingFailed"

(***************************************************************************)
(* C18: a record the size-budget pass evicts would be returned Ok if it    *)
(* were alone in the invocation: its len(data) + len(recordId) is within   *)
(* the budget, and the first Ok-classified record of a batch is never      *)
(* evicted.                                                                *)
(***************************************************************************)
C18_EvictedWouldFitAlone ==
    GroupsBuilt =>
        LET cls == Classified
            ok == {i \in DOMAIN cls : cls[i].result = "Ok"}
        IN /\ \A i \in ok :
                 records[i].result = "Dropped" => ~OverBudget(Accumulate(0, cls[i]))
           /\ ok # {} =>
                 records[CHOOSE i \in ok : \A j \in ok : i <= j].result = "Ok"

(***************************************************************************)
(* C19: when lambda_handler returns on a batch with unique recordIds,      *)
(* every record processRecords classified Ok is either returned Ok with    *)
(* its transformed data or returned Dropped with its original bytes in     *)
(* one entry of one group, and that group was submitted and its call       *)
(* returned; no entry belongs to a record returned Ok, and without an      *)
(* evicted record no put call is made.                                     *)
(***************************************************************************)
C19_NoDataRecordLost ==
    Returned /\ UniqueRecordIds =>
        \A cls \in {Classified} :
        \A evicted \in {EvictedIndices(cls, records)} :
        \A entries \in {AllEntries} :
           /\ \A i \in DOMAIN cls :
                 cls[i].result = "Ok" =>
                    \/ records[i] = cls[i]
                    \/ /\ records[i] = DroppedRecord(cls[i].recordId)
                       /\ \E j \in DOMAIN evicted : evicted[j] = i
           /\ Len(entries) = Len(evicted)
           /\ recordsReingestedSoFar = Len(evicted)
           /\ \A j \in DOMAIN evicted :
                 LET g == ((j - 1) \div GroupSize) + 1
                     p == ((j - 1) % GroupSize) + 1
                 IN /\ g \in DOMAIN putRecordBatches
                    /\ p \in DOMAIN putRecordBatches[g]
                    /\ putRecordBatches[g][p].Data = b64decode(event.records[evicted[j]].data)
                    /\ lastStatus[g][p] = "accepted"
           /\ evicted = <<>> =>
                 putRecordBatches = <<>> /\ putCalls = 0 /\ ~lastCountZero

\* a batch was returned with a record kept Ok and the evicted records
\* delivered in two groups or more
C19_Witness ==
    /\ Returned
    /\ UniqueRecordIds
    /\ \E i \in DOMAIN records : records[i].result = "Ok"
    /\ Len(putRecordBatches) >= 2
    /\ recordsReingestedSoFar = totalRecordsToBeReingested

====
